---- MODULE Spec2Model ----
(***************************************************************************)
(* Model of tdlib/examples/bot.rs: the main task (set_log_verbosity_level, *)
(* handle_authorization_state twice with get_me in between, join) and the  *)
(* spawned task that polls tdlib::receive() and dispatches each update to  *)
(* handle_update, which forwards authorization states over a bounded mpsc  *)
(* channel.                                                                *)
(***************************************************************************)
EXTENDS Integers, Sequences, FiniteSets, TLC

\* ---------------------------------------------------------------- bounds

\* Authorization-state updates the Update Source delivers in one run.
MaxPolls == 7

\* Of those, the ones whose variant handle_authorization_state names; the rest
\* are of the variants it ignores.
MaxNamed == 2

\* Err responses the invoker gives to one WaitPhoneNumber notification.
MaxFails == 3

\* ------------------------------------------------------------- constants

\* mpsc::channel(5)
ChannelCapacity == 5

\* The variants of enums::AuthorizationState that handle_authorization_state
\* names, and one ("WaitCode") standing for every variant it leaves to `_`.
NamedStates ==
    {"WaitTdlibParameters", "WaitPhoneNumber", "Ready", "Closed", "Closing",
     "WaitEncryptionKey"}

OtherStates == {"WaitCode"}

AuthorizationState == NamedStates \cup OtherStates

\* The update kinds handle_update prints and returns from ("Option" stands
\* for every kind it leaves to `_`).
PrintedUpdates == {"NewChat", "Supergroup", "User", "Option"}

\* What ask_user can return: nothing, or a reply text.
AskUserAnswers == {"", "hi"}

NoState == [id |-> 0, st |-> "none"]

VARIABLES
    run_flag,   \* the AtomicBool shared by both tasks
    channel,    \* the messages buffered in the mpsc channel, oldest first
    pumpPc,     \* spawned task: "check", "receive", "send", "blocked", "reply", "done",
                \* "panicked"
    pumpMsg,    \* the authorization state handle_update is sending
    mainPc,     \* main task: "verbosity", "verbosity_wait", "driver1", "get_me",
                \* "get_me_wait", "driver2", "drop", "join", "done", "panicked"
    drvPc,      \* inside handle_authorization_state: "recv", "match", "await"; else "idle"
    cur,        \* the state the driver last took from the channel
    pending,    \* the remote function the main task awaits, or "none"
    response,   \* the response delivered to it: "none", "Ok", "Err"
    closedSeen, \* history: the driver has received a Closed state
    nPolled,    \* history: authorization-state updates polled so far
    nNamed,     \* history: those of them whose variant the driver names
    curCalls,   \* history: remote calls issued for cur, in order
    fails,      \* history: Err responses handled for cur
    stores,     \* history: run_flag.store(false) performed, per invocation
    retOn,      \* history: what ended each invocation
    retCalls,   \* history: the calls issued for the state that ended each invocation
    discarded,  \* history: notifications polled and thrown away unreceived
    pollsSinceClear,    \* history: calls of tdlib::receive() made with run_flag false
    sendMessageFailed   \* history: reply's send_message returned Err

vars ==
    <<run_flag, channel, pumpPc, pumpMsg, mainPc, drvPc, cur, pending, response,
      closedSeen, nPolled, nNamed, curCalls, fails, stores, retOn, retCalls, discarded,
      pollsSinceClear, sendMessageFailed>>

pumpVars == <<pumpPc, pumpMsg, nPolled, nNamed, pollsSinceClear, sendMessageFailed>>
mainVars == <<mainPc, drvPc, cur, closedSeen, curCalls, fails, stores, retOn, retCalls>>

\* The invocation of handle_authorization_state that is running (1 or 2).
Invocation == IF mainPc = "driver1" THEN 1 ELSE 2

InDriver == mainPc \in {"driver1", "driver2"}

\* auth_rx lives until the second invocation's return value is dropped.
RxAlive == mainPc \notin {"join", "done", "panicked"}

\* auth_tx is owned by the spawned task's future.
TxAlive == pumpPc \notin {"done", "panicked"}

\* A panic of the main task ends the process; so does its return.
ProcessAlive == mainPc \notin {"done", "panicked"}

Init ==
    /\ run_flag = TRUE
    /\ channel = <<>>
    /\ pumpPc = "check"
    /\ pumpMsg = NoState
    /\ mainPc = "verbosity"
    /\ drvPc = "idle"
    /\ cur = NoState
    /\ pending = "none"
    /\ response = "none"
    /\ closedSeen = FALSE
    /\ nPolled = 0
    /\ nNamed = 0
    /\ curCalls = <<>>
    /\ fails = 0
    /\ stores = [i \in 1..2 |-> 0]
    /\ retOn = [i \in 1..2 |-> "none"]
    /\ retCalls = [i \in 1..2 |-> <<>>]
    /\ discarded = 0
    /\ pollsSinceClear = 0
    /\ sendMessageFailed = FALSE

\* ------------------------------------------------------- the spawned task

\* Mutant: the loop goes on polling after it read the flag false (twice more).
PumpLoadFlagIgnoresFlag ==
    /\ ProcessAlive
    /\ pumpPc = "check"
    /\ pumpPc' = IF run_flag \/ pollsSinceClear < 2 THEN "receive" ELSE "done"
    /\ UNCHANGED <<run_flag, channel, pumpMsg, nPolled, nNamed, pending, response,
                   discarded, pollsSinceClear, sendMessageFailed>>
    /\ UNCHANGED mainVars

\* while run_flag_clone.load(Ordering::Acquire)
PumpLoadFlag ==
    /\ ProcessAlive
    /\ pumpPc = "check"
    /\ pumpPc' = IF run_flag THEN "receive" ELSE "done"
    /\ UNCHANGED <<run_flag, channel, pumpMsg, nPolled, nNamed, pending, response,
                   discarded, pollsSinceClear, sendMessageFailed>>
    /\ UNCHANGED mainVars

\* tdlib::receive() returns None: nothing arrived within its timeout.
ReceiveNone ==
    /\ pumpPc' = "check"
    /\ UNCHANGED <<pumpMsg, nPolled, nNamed, pending, response>>

\* tdlib::receive() takes the response to the request in flight, hands it to
\* the awaiting future and returns None.
ReceiveResponse ==
    /\ pending # "none"
    /\ response = "none"
    /\ \E r \in {"Ok", "Err"} :
        /\ (r = "Err" /\ pending = "check_authentication_bot_token") => fails < MaxFails
        /\ response' = r
    /\ pumpPc' = "check"
    /\ UNCHANGED <<pumpMsg, nPolled, nNamed, pending>>

\* tdlib::receive() returns Update::AuthorizationState: handle_update goes to send.
ReceiveAuthorizationState ==
    /\ nPolled < MaxPolls
    /\ \E s \in AuthorizationState :
        /\ s \in NamedStates => nNamed < MaxNamed
        /\ pumpMsg' = [id |-> nPolled + 1, st |-> s]
        /\ nNamed' = IF s \in NamedStates THEN nNamed + 1 ELSE nNamed
    /\ nPolled' = nPolled + 1
    /\ pumpPc' = "send"
    /\ UNCHANGED <<pending, response>>

\* Mutant: a printed update is sent on the channel as well.
ReceivePrintedForwards ==
    /\ \E k \in PrintedUpdates :
        /\ pumpMsg' = [id |-> nPolled, st |-> "WaitCode"]
        /\ pumpPc' = "send"
    /\ UNCHANGED <<nPolled, nNamed, pending, response>>

\* tdlib::receive() returns an update handle_update prints or ignores.
ReceivePrinted ==
    /\ \E k \in PrintedUpdates : pumpPc' = "check"
    /\ UNCHANGED <<pumpMsg, nPolled, nNamed, pending, response>>

\* tdlib::receive() returns Update::NewMessage: ask_user, then reply unless
\* the answer is empty. reply awaits send_message inside the polling task.
ReceiveNewMessage ==
    /\ \E msg \in AskUserAnswers :
        pumpPc' = IF msg = "" THEN "check" ELSE "reply"
    /\ UNCHANGED <<pumpMsg, nPolled, nNamed, pending, response>>

PumpReceive ==
    /\ ProcessAlive
    /\ pumpPc = "receive"
    /\ \/ ReceiveNone
       \/ ReceiveResponse
       \/ ReceiveAuthorizationState
       \/ ReceivePrinted
       \/ ReceiveNewMessage
    /\ pollsSinceClear' = IF run_flag THEN pollsSinceClear ELSE pollsSinceClear + 1
    /\ UNCHANGED <<run_flag, channel, discarded, sendMessageFailed>>
    /\ UNCHANGED mainVars

\* The send future resolves: Ok with the value buffered behind the others, or
\* Err because the receiver is gone, which .unwrap() turns into a panic.
SendResolves ==
    /\ \/ /\ RxAlive
          /\ Len(channel) < ChannelCapacity
          /\ channel' = Append(channel, pumpMsg)
          /\ pumpPc' = "check"
          /\ UNCHANGED discarded
       \/ /\ ~RxAlive
          /\ pumpPc' = "panicked"
          /\ discarded' = discarded + 1
          /\ UNCHANGED channel
    /\ pumpMsg' = NoState

\* auth_tx.send(update.authorization_state).await.unwrap(): first poll of the
\* send future. With the receiver alive and no free slot the task suspends.
HandleUpdateSend ==
    /\ ProcessAlive
    /\ pumpPc = "send"
    /\ \/ SendResolves
       \/ /\ RxAlive
          /\ Len(channel) = ChannelCapacity
          /\ pumpPc' = "blocked"
          /\ UNCHANGED <<channel, pumpMsg, discarded>>
    /\ UNCHANGED <<run_flag, nPolled, nNamed, pending, response, pollsSinceClear,
                   sendMessageFailed>>
    /\ UNCHANGED mainVars

\* The suspended send is woken: a slot was freed, or the receiver was dropped.
HandleUpdateSendWoken ==
    /\ ProcessAlive
    /\ pumpPc = "blocked"
    /\ SendResolves
    /\ UNCHANGED <<run_flag, nPolled, nNamed, pending, response, pollsSinceClear,
                   sendMessageFailed>>
    /\ UNCHANGED mainVars

\* reply: send_message(..).await.expect("Failed to send a message"), then
\* println!("message sent"). The response is the invoker's: Ok or Err.
SendMessageResponse ==
    /\ ProcessAlive
    /\ pumpPc = "reply"
    /\ \E r \in {"Ok", "Err"} :
        /\ pumpPc' = IF r = "Ok" THEN "check" ELSE "panicked"
        /\ sendMessageFailed' = (r = "Err")
    /\ UNCHANGED <<run_flag, channel, pumpMsg, nPolled, nNamed, pending, response,
                   discarded, pollsSinceClear>>
    /\ UNCHANGED mainVars

\* The Remote Function Invoker answers the main task's request by itself,
\* without a call of tdlib::receive() bringing the response.
InvokerResponds ==
    /\ ProcessAlive
    /\ pending # "none"
    /\ response = "none"
    /\ \E r \in {"Ok", "Err"} :
        /\ (r = "Err" /\ pending = "check_authentication_bot_token") => fails < MaxFails
        /\ response' = r
    /\ UNCHANGED <<run_flag, channel, pending, discarded>>
    /\ UNCHANGED pumpVars
    /\ UNCHANGED mainVars

\* ---------------------------------------------------------- the main task

\* A remote function is called and its future awaited.
Issue(fn) ==
    /\ pending' = fn
    /\ response' = "none"

\* The awaited future resolved: nothing is in flight any more.
Resolved ==
    /\ pending' = "none"
    /\ response' = "none"

\* functions::set_log_verbosity_level(2, client_id).await
SetLogVerbosityLevel ==
    /\ mainPc = "verbosity"
    /\ mainPc' = "verbosity_wait"
    /\ Issue("set_log_verbosity_level")
    /\ UNCHANGED <<run_flag, channel, drvPc, cur, closedSeen, curCalls, fails, stores,
                   retOn, retCalls, discarded>>
    /\ UNCHANGED pumpVars

\* .unwrap() of its response, then the first handle_authorization_state starts.
SetLogVerbosityLevelResponse ==
    /\ mainPc = "verbosity_wait"
    /\ response # "none"
    /\ IF response = "Ok"
       THEN mainPc' = "driver1" /\ drvPc' = "recv"
       ELSE mainPc' = "panicked" /\ drvPc' = "idle"
    /\ Resolved
    /\ UNCHANGED <<run_flag, channel, cur, closedSeen, curCalls, fails, stores, retOn,
                   retCalls, discarded>>
    /\ UNCHANGED pumpVars

\* handle_authorization_state returns auth_rx: to main's `let auth_rx` from the
\* first invocation, to a temporary from the second.
Return(cause) ==
    /\ retOn' = [retOn EXCEPT ![Invocation] = cause]
    /\ retCalls' = [retCalls EXCEPT ![Invocation] = curCalls]
    /\ drvPc' = "idle"
    /\ mainPc' = IF mainPc = "driver1" THEN "get_me" ELSE "drop"
    /\ UNCHANGED <<channel, discarded>>

\* Mutant: recv hands out the newest buffered message instead of the oldest.
DriverRecvNewest ==
    /\ InDriver
    /\ drvPc = "recv"
    /\ channel # <<>>
    /\ cur' = channel[Len(channel)]
    /\ channel' = SubSeq(channel, 1, Len(channel) - 1)
    /\ drvPc' = "match"
    /\ closedSeen' = (closedSeen \/ channel[Len(channel)].st = "Closed")
    /\ curCalls' = <<>>
    /\ fails' = 0
    /\ UNCHANGED <<run_flag, mainPc, pending, response, stores, retOn, retCalls,
                   discarded>>
    /\ UNCHANGED pumpVars

\* while let Some(state) = auth_rx.recv().await
DriverRecv ==
    /\ InDriver
    /\ drvPc = "recv"
    /\ channel # <<>>
    /\ cur' = Head(channel)
    /\ channel' = Tail(channel)
    /\ drvPc' = "match"
    /\ closedSeen' = (closedSeen \/ Head(channel).st = "Closed")
    /\ curCalls' = <<>>
    /\ fails' = 0
    /\ UNCHANGED <<run_flag, mainPc, pending, response, stores, retOn, retCalls,
                   discarded>>
    /\ UNCHANGED pumpVars

\* auth_rx.recv() gives None: every sender is gone and nothing is buffered.
DriverRecvNone ==
    /\ InDriver
    /\ drvPc = "recv"
    /\ channel = <<>>
    /\ ~TxAlive
    /\ Return("ChannelClosed")
    /\ UNCHANGED <<run_flag, cur, closedSeen, pending, response, curCalls, fails, stores>>
    /\ UNCHANGED pumpVars

\* An arm of the match that calls a remote function and awaits it.
CallArm(st, fn) ==
    /\ InDriver
    /\ drvPc = "match"
    /\ cur.st = st
    /\ Issue(fn)
    /\ curCalls' = Append(curCalls, fn)
    /\ drvPc' = "await"
    /\ UNCHANGED <<run_flag, channel, mainPc, cur, closedSeen, fails, stores, retOn,
                   retCalls, discarded>>
    /\ UNCHANGED pumpVars

\* An arm that handles the response of its one call and falls out of the match.
ResponseArm(st) ==
    /\ InDriver
    /\ drvPc = "await"
    /\ cur.st = st
    /\ response # "none"
    /\ Resolved
    /\ fails' = IF response = "Err" THEN fails + 1 ELSE fails
    /\ drvPc' = "recv"
    /\ UNCHANGED <<run_flag, channel, mainPc, cur, closedSeen, curCalls, stores, retOn,
                   retCalls, discarded>>
    /\ UNCHANGED pumpVars

\* Mutant: an arm that calls its function again when the response is an error.
RetryArm(st, fn) ==
    /\ InDriver
    /\ drvPc = "await"
    /\ cur.st = st
    /\ response # "none"
    /\ IF response = "Ok"
       THEN /\ Resolved
            /\ drvPc' = "recv"
            /\ UNCHANGED <<curCalls, fails>>
       ELSE /\ fails < MaxFails
            /\ Issue(fn)
            /\ curCalls' = Append(curCalls, fn)
            /\ fails' = fails + 1
            /\ UNCHANGED drvPc
    /\ UNCHANGED <<run_flag, channel, mainPc, cur, closedSeen, stores, retOn, retCalls,
                   discarded>>
    /\ UNCHANGED pumpVars

\* AuthorizationState::WaitTdlibParameters => set_tdlib_parameters(..).await
MatchWaitTdlibParameters == CallArm("WaitTdlibParameters", "set_tdlib_parameters")

\* Mutant: a failed set_tdlib_parameters is retried.
TdlibParametersResponseRetry == RetryArm("WaitTdlibParameters", "set_tdlib_parameters")

\* if let Err(error) = response { println!(..) }
TdlibParametersResponse == ResponseArm("WaitTdlibParameters")

\* AuthorizationState::WaitPhoneNumber => loop { check_authentication_bot_token(..).await
MatchWaitPhoneNumber == CallArm("WaitPhoneNumber", "check_authentication_bot_token")

\* Mutant: the token loop is left on an error as well.
BotTokenResponseNoRetry == ResponseArm("WaitPhoneNumber")

\* match response { Ok(_) => break, Err(e) => println!(..) } and the loop again
BotTokenResponse ==
    /\ InDriver
    /\ drvPc = "await"
    /\ cur.st = "WaitPhoneNumber"
    /\ response # "none"
    /\ IF response = "Ok"
       THEN /\ Resolved
            /\ drvPc' = "recv"
            /\ UNCHANGED <<curCalls, fails>>
       ELSE /\ Issue("check_authentication_bot_token")
            /\ curCalls' = Append(curCalls, "check_authentication_bot_token")
            /\ fails' = fails + 1
            /\ UNCHANGED drvPc
    /\ UNCHANGED <<run_flag, channel, mainPc, cur, closedSeen, stores, retOn, retCalls,
                   discarded>>
    /\ UNCHANGED pumpVars

\* Mutant: the Ready arm lacks its break.
MatchReadyNoBreak ==
    /\ InDriver
    /\ drvPc = "match"
    /\ cur.st = "Ready"
    /\ drvPc' = "recv"
    /\ UNCHANGED <<run_flag, channel, mainPc, cur, closedSeen, pending, response,
                   curCalls, fails, stores, retOn, retCalls, discarded>>
    /\ UNCHANGED pumpVars

\* AuthorizationState::Ready => break
MatchReady ==
    /\ InDriver
    /\ drvPc = "match"
    /\ cur.st = "Ready"
    /\ Return("Ready")
    /\ UNCHANGED <<run_flag, cur, closedSeen, pending, response, curCalls, fails, stores>>
    /\ UNCHANGED pumpVars

\* Mutant: the Closed arm stores false and lacks its break.
MatchClosedNoBreak ==
    /\ InDriver
    /\ drvPc = "match"
    /\ cur.st = "Closed"
    /\ run_flag' = FALSE
    /\ stores' = [stores EXCEPT ![Invocation] = @ + 1]
    /\ drvPc' = "recv"
    /\ UNCHANGED <<channel, mainPc, cur, closedSeen, pending, response, curCalls, fails,
                   retOn, retCalls, discarded>>
    /\ UNCHANGED pumpVars

\* AuthorizationState::Closed => { run_flag.store(false, Ordering::Release); break }
MatchClosed ==
    /\ InDriver
    /\ drvPc = "match"
    /\ cur.st = "Closed"
    /\ run_flag' = FALSE
    /\ stores' = [stores EXCEPT ![Invocation] = @ + 1]
    /\ Return("Closed")
    /\ UNCHANGED <<cur, closedSeen, pending, response, curCalls, fails>>
    /\ UNCHANGED pumpVars

\* Mutant: the Closing arm clears the run flag as the Closed arm does.
MatchClosingStores ==
    /\ InDriver
    /\ drvPc = "match"
    /\ cur.st = "Closing"
    /\ run_flag' = FALSE
    /\ Return("Closing")
    /\ UNCHANGED <<cur, closedSeen, pending, response, curCalls, fails, stores>>
    /\ UNCHANGED pumpVars

\* AuthorizationState::Closing => { println!("error 500"); break }
MatchClosing ==
    /\ InDriver
    /\ drvPc = "match"
    /\ cur.st = "Closing"
    /\ Return("Closing")
    /\ UNCHANGED <<run_flag, cur, closedSeen, pending, response, curCalls, fails, stores>>
    /\ UNCHANGED pumpVars

\* Mutant: the WaitEncryptionKey arm calls the WaitTdlibParameters arm's function.
MatchWaitEncryptionKeyWrongCall == CallArm("WaitEncryptionKey", "set_tdlib_parameters")

\* AuthorizationState::WaitEncryptionKey(_) => check_database_encryption_key(..).await
MatchWaitEncryptionKey == CallArm("WaitEncryptionKey", "check_database_encryption_key")

\* Mutant: an error of check_database_encryption_key ends the invocation.
EncryptionKeyResponseReturns ==
    /\ InDriver
    /\ drvPc = "await"
    /\ cur.st = "WaitEncryptionKey"
    /\ response # "none"
    /\ Resolved
    /\ fails' = IF response = "Err" THEN fails + 1 ELSE fails
    /\ IF response = "Err"
       THEN Return("Error")
       ELSE drvPc' = "recv" /\ UNCHANGED <<channel, mainPc, retOn, retCalls, discarded>>
    /\ UNCHANGED <<run_flag, cur, closedSeen, curCalls, stores>>
    /\ UNCHANGED pumpVars

\* match response { Ok(_) => (), Err(e) => println!(..) }
EncryptionKeyResponse == ResponseArm("WaitEncryptionKey")

\* Mutant: the catch-all arm breaks out of the loop.
MatchOtherBreaks ==
    /\ InDriver
    /\ drvPc = "match"
    /\ cur.st \in OtherStates
    /\ Return(cur.st)
    /\ UNCHANGED <<run_flag, cur, closedSeen, pending, response, curCalls, fails, stores>>
    /\ UNCHANGED pumpVars

\* _ => ()
MatchOther ==
    /\ InDriver
    /\ drvPc = "match"
    /\ cur.st \in OtherStates
    /\ drvPc' = "recv"
    /\ UNCHANGED <<run_flag, channel, mainPc, cur, closedSeen, pending, response,
                   curCalls, fails, stores, retOn, retCalls, discarded>>
    /\ UNCHANGED pumpVars

\* let me_response = functions::get_me(client_id).await
GetMe ==
    /\ mainPc = "get_me"
    /\ mainPc' = "get_me_wait"
    /\ Issue("get_me")
    /\ UNCHANGED <<run_flag, channel, drvPc, cur, closedSeen, curCalls, fails, stores,
                   retOn, retCalls, discarded>>
    /\ UNCHANGED pumpVars

\* match me_response: either arm prints; the second handle_authorization_state starts.
GetMeResponse ==
    /\ mainPc = "get_me_wait"
    /\ response # "none"
    /\ Resolved
    /\ mainPc' = "driver2"
    /\ drvPc' = "recv"
    /\ UNCHANGED <<run_flag, channel, cur, closedSeen, curCalls, fails, stores, retOn,
                   retCalls, discarded>>
    /\ UNCHANGED pumpVars

\* The receiver the second invocation returned is dropped at the end of its
\* statement, and what the channel still buffers goes with it.
DropReceiver ==
    /\ mainPc = "drop"
    /\ mainPc' = "join"
    /\ channel' = <<>>
    /\ discarded' = discarded + Len(channel)
    /\ UNCHANGED <<run_flag, drvPc, cur, closedSeen, pending, response, curCalls, fails,
                   stores, retOn, retCalls>>
    /\ UNCHANGED pumpVars

\* handle.await.unwrap(): a panic of the spawned task comes back as a JoinError.
Join ==
    /\ mainPc = "join"
    /\ ~TxAlive
    /\ mainPc' = IF pumpPc = "done" THEN "done" ELSE "panicked"
    /\ UNCHANGED <<run_flag, channel, drvPc, cur, closedSeen, pending, response, curCalls,
                   fails, stores, retOn, retCalls, discarded>>
    /\ UNCHANGED pumpVars

Next ==
    \/ PumpLoadFlag
    \/ PumpReceive
    \/ HandleUpdateSend
    \/ HandleUpdateSendWoken
    \/ SetLogVerbosityLevel
    \/ SetLogVerbosityLevelResponse
    \/ DriverRecv
    \/ DriverRecvNone
    \/ MatchWaitTdlibParameters
    \/ TdlibParametersResponse
    \/ MatchWaitPhoneNumber
    \/ BotTokenResponse
    \/ MatchReady
    \/ MatchClosed
    \/ MatchClosing
    \/ MatchWaitEncryptionKey
    \/ EncryptionKeyResponse
    \/ MatchOther
    \/ GetMe
    \/ GetMeResponse
    \/ DropReceiver
    \/ Join

\* Responses reach the main task only through the spawned task's
\* tdlib::receive(); a send_message awaited inside that task is never answered.
Spec == Init /\ [][Next]_vars

\* The invoker as a collaborator that answers every request by itself.
NextInvoker ==
    \/ Next
    \/ SendMessageResponse
    \/ InvokerResponds

SpecInvoker == Init /\ [][NextInvoker]_vars

\* ------------------------------------------------------------ properties

TokenCall == "check_authentication_bot_token"

\* A step of the main task (the spawned task leaves all of these alone).
MainStep == mainVars' # mainVars

\* C1: the remote calls issued for the state in hand are those of the table:
\* none before the match arm ran; then one set_tdlib_parameters for
\* WaitTdlibParameters, one check_database_encryption_key for
\* WaitEncryptionKey, one or more check_authentication_bot_token for
\* WaitPhoneNumber, and none for Ready, Closing, Closed and any other state.
C1_CallsMatchTable ==
    /\ drvPc = "match" => curCalls = <<>>
    /\ drvPc # "match" =>
        /\ cur.st = "WaitTdlibParameters" => curCalls = <<"set_tdlib_parameters">>
        /\ cur.st = "WaitEncryptionKey" => curCalls = <<"check_database_encryption_key">>
        /\ cur.st = "WaitPhoneNumber" =>
            /\ Len(curCalls) >= 1
            /\ \A i \in 1..Len(curCalls) : curCalls[i] = TokenCall
        /\ cur.st \notin {"WaitTdlibParameters", "WaitEncryptionKey", "WaitPhoneNumber"}
            => curCalls = <<>>
    /\ cur.st # "WaitPhoneNumber" => Len(curCalls) <= 1

\* An invocation that handled WaitPhoneNumber with several calls and went back
\* to recv, after an earlier state of the same run had its one call.
C1_Witness ==
    /\ InDriver
    /\ drvPc = "recv"
    /\ cur.st = "WaitPhoneNumber"
    /\ cur.id >= 2
    /\ Len(curCalls) = 3

\* C2 as stated: over the whole run run_flag.store(false) is performed at most
\* once, and the invocation that receives Closed returns without a remote call.
C2_StoreAtMostOnce ==
    /\ stores[1] + stores[2] <= 1
    /\ \A i \in 1..2 : retOn[i] = "Closed" => retCalls[i] = <<>>

\* C2 amended: each invocation performs the store at most once, exactly when
\* it receives Closed, and then returns without a remote call; the flag is
\* false exactly when some invocation has stored.
C2_StoreOncePerInvocation ==
    /\ \A i \in 1..2 :
        /\ stores[i] <= 1
        /\ stores[i] = 1 <=> retOn[i] = "Closed"
        /\ retOn[i] = "Closed" => retCalls[i] = <<>>
    /\ run_flag <=> stores[1] + stores[2] = 0

\* Both invocations received Closed and both stored.
C2_Witness ==
    /\ stores[1] = 1
    /\ stores[2] = 1
    /\ retOn[2] = "Closed"

\* C3: the run flag is true unless the driver has received Closed; it is
\* written only by the Closed arm, and only from true to false.
C3_RunFlagLifecycle ==
    /\ [](~run_flag => closedSeen)
    /\ [][run_flag' # run_flag =>
            (run_flag /\ InDriver /\ drvPc = "match" /\ cur.st = "Closed")]_vars

\* The second invocation runs with the flag already cleared by the first.
C3_Witness ==
    /\ ~run_flag
    /\ closedSeen
    /\ mainPc = "driver2"
    /\ retOn[1] = "Closed"

\* C4: notifications are taken in the order they were polled, one at a time:
\* the driver takes a notification only at recv with no call in flight, the
\* one it takes was polled after the one before, and a call is issued only
\* for the notification in hand. Ids are poll order and carry over from the
\* first invocation to the second.
C4_NoReorder ==
    /\ [](pumpMsg.id = 0 \/ pumpMsg.id = nPolled)
    /\ [][/\ cur' # cur =>
                /\ drvPc = "recv"
                /\ pending = "none"
                /\ response = "none"
                /\ cur'.id > cur.id
                /\ \A i \in 1..Len(channel') : channel'[i].id > cur'.id
          /\ (curCalls' # curCalls /\ curCalls' # <<>>) =>
                /\ cur' = cur
                /\ pending' = curCalls'[Len(curCalls')]]_vars

\* The second invocation has a call in flight for a notification polled after
\* others, with later ones waiting behind it.
C4_Witness ==
    /\ mainPc = "driver2"
    /\ drvPc = "await"
    /\ cur.id >= 3
    /\ Len(channel) >= 2

\* C5 as stated: no notification the pump polled is ever thrown away unreceived.
C5_NeverDropped == discarded = 0

\* C6: the step the driver takes on Ready returns from the invocation, issues
\* no call, takes nothing from the channel and leaves the run flag as it is;
\* until the next invocation starts, Ready stays the last state taken.
C6_ReadyReturns ==
    /\ [](\A i \in 1..2 : retOn[i] = "Ready" => retCalls[i] = <<>>)
    /\ []((mainPc \in {"get_me", "get_me_wait"} /\ retOn[1] = "Ready") => cur.st = "Ready")
    /\ []((mainPc \in {"drop", "join", "done"} /\ retOn[2] = "Ready") => cur.st = "Ready")
    /\ [][(InDriver /\ drvPc = "match" /\ cur.st = "Ready" /\ MainStep) =>
            /\ mainPc' = (IF mainPc = "driver1" THEN "get_me" ELSE "drop")
            /\ drvPc' = "idle"
            /\ retOn'[Invocation] = "Ready"
            /\ curCalls' = <<>>
            /\ pending' = "none"
            /\ cur' = cur
            /\ channel' = channel
            /\ run_flag' = run_flag]_vars

\* The first invocation returned on Ready with the flag true and later
\* notifications still buffered.
C6_Witness ==
    /\ mainPc = "get_me"
    /\ retOn[1] = "Ready"
    /\ run_flag
    /\ Len(channel) >= 2

\* C7: an Err from set_tdlib_parameters or check_database_encryption_key is
\* not retried: the step that handles the response goes back to recv inside
\* the same invocation with the one call issued, nothing in flight and the
\* run flag as it was; the state has exactly one call, failed or not.
C7_ErrorNotRetried ==
    /\ []((cur.st \in {"WaitTdlibParameters", "WaitEncryptionKey"} /\ drvPc # "match") =>
            (Len(curCalls) = 1 /\ fails <= 1))
    /\ [][(/\ InDriver
           /\ drvPc = "await"
           /\ cur.st \in {"WaitTdlibParameters", "WaitEncryptionKey"}
           /\ MainStep) =>
            /\ response # "none"
            /\ drvPc' = "recv"
            /\ mainPc' = mainPc
            /\ retOn' = retOn
            /\ curCalls' = curCalls
            /\ pending' = "none"
            /\ cur' = cur
            /\ channel' = channel
            /\ run_flag' = run_flag]_vars

\* The encryption-key call failed and the driver is back at recv, flag true.
C7_Witness ==
    /\ InDriver
    /\ drvPc = "recv"
    /\ cur.st = "WaitEncryptionKey"
    /\ fails = 1
    /\ Len(curCalls) = 1
    /\ run_flag

\* C8: for WaitPhoneNumber the calls issued are the failures handled plus one;
\* while the loop runs nothing is taken from the channel; the loop is left
\* only on an Ok response, and then to recv in the same invocation.
C8_TokenRetry ==
    /\ []((cur.st = "WaitPhoneNumber" /\ drvPc # "match") => Len(curCalls) = fails + 1)
    /\ [][(InDriver /\ drvPc = "await" /\ cur.st = "WaitPhoneNumber") =>
            /\ cur' = cur
            /\ Len(channel') >= Len(channel)
            /\ drvPc' # "await" =>
                /\ response = "Ok"
                /\ drvPc' = "recv"
                /\ mainPc' = mainPc
                /\ curCalls' = curCalls]_vars

\* Three submissions failed, the fourth was accepted, the driver is at recv.
C8_Witness ==
    /\ InDriver
    /\ drvPc = "recv"
    /\ cur.st = "WaitPhoneNumber"
    /\ fails = 3
    /\ Len(curCalls) = 4

\* C9: the step the driver takes on a state it does not name changes nothing
\* but its own position, which goes back to recv in the same invocation.
C9_OtherIsNoOp ==
    /\ [](cur.st \in OtherStates => (curCalls = <<>> /\ fails = 0))
    /\ [][(InDriver /\ drvPc = "match" /\ cur.st \notin NamedStates /\ MainStep) =>
            /\ drvPc' = "recv"
            /\ mainPc' = mainPc
            /\ retOn' = retOn
            /\ curCalls' = <<>>
            /\ pending' = "none"
            /\ response' = response
            /\ cur' = cur
            /\ channel' = channel
            /\ stores' = stores
            /\ run_flag' = run_flag]_vars

\* The second invocation ignored a state and is waiting for the next one.
C9_Witness ==
    /\ mainPc = "driver2"
    /\ drvPc = "recv"
    /\ cur.st \in OtherStates
    /\ run_flag

\* C10 as stated: the channel never holds more than its capacity; a send that
\* found it full polls nothing further, and ends only by putting its
\* notification behind the ones buffered.
C10_Backpressure ==
    /\ [](Len(channel) <= ChannelCapacity)
    /\ [](pumpPc = "blocked" => pumpMsg.id = nPolled)
    /\ [][pumpPc = "blocked" =>
            /\ nPolled' = nPolled
            /\ \/ pumpPc' = "blocked" /\ pumpMsg' = pumpMsg
               \/ /\ Len(channel) < ChannelCapacity
                  /\ channel' = Append(channel, pumpMsg)]_vars

\* C11 as stated: once the driver has received Closed the shutdown completes:
\* neither task panics, and until main has joined the spawned task the
\* program has a step to take.
C11_ShutdownCompletes ==
    closedSeen =>
        /\ pumpPc # "panicked"
        /\ mainPc # "panicked"
        /\ mainPc = "done" \/ ENABLED Next

\* C12 as stated: the pump task ends only by observing the run flag false:
\* whenever it has ended, it ended at the flag check and the flag is false.
C12_PumpExitsOnlyByFlag ==
    ~TxAlive => (pumpPc = "done" /\ ~run_flag)

\* The verbosity-configuration call failed: main panicked before the first
\* invocation of the driver.
VerbosityFailed == mainPc = "panicked" /\ retOn[1] = "none" /\ curCalls = <<>> /\ cur = NoState

\* C13 as stated: after a failure of the verbosity-configuration call or of a
\* send-message call the program has stopped: the pump takes no further step
\* (no poll, no dispatch), the driver processes no further notification and
\* no remote call is issued.
C13_FailureAborts ==
    [][(VerbosityFailed \/ sendMessageFailed) =>
          /\ UNCHANGED pumpVars
          /\ cur' = cur
          /\ ~(pending = "none" /\ pending' # "none")]_vars

\* C14 as stated: the second invocation of handle_authorization_state returns
\* only after Closed has been received, so when main is at the join of the
\* pump task the run flag is false.
C14_SecondWaitsForClosed ==
    /\ retOn[2] # "none" => closedSeen
    /\ mainPc = "join" => ~run_flag

\* What ends an invocation of handle_authorization_state.
ReturnCauses == {"Ready", "Closing", "Closed", "ChannelClosed"}

\* C15: an invocation of the driver returns only from the match on Ready,
\* Closing or Closed, or from recv when the channel is empty and its sender is
\* gone; the step that handles an error response stays inside the invocation:
\* it does not return, does not tell main, and does not end the program.
C15_ReturnsOnlyOnTerminal ==
    /\ [](\A i \in {1, 2} : retOn[i] \in ReturnCauses \cup {"none"})
    /\ [][retOn' # retOn =>
            \/ /\ drvPc = "match"
               /\ cur.st \in {"Ready", "Closing", "Closed"}
               /\ retOn' = [retOn EXCEPT ![Invocation] = cur.st]
            \/ /\ drvPc = "recv"
               /\ channel = <<>>
               /\ ~TxAlive
               /\ retOn' = [retOn EXCEPT ![Invocation] = "ChannelClosed"]]_vars
    /\ [][(InDriver /\ drvPc = "await" /\ response = "Err" /\ MainStep) =>
            /\ mainPc' = mainPc
            /\ drvPc' \in {"recv", "await"}
            /\ retOn' = retOn
            /\ retCalls' = retCalls]_vars

\* The second invocation, entered after the first returned on Ready, has
\* handled an error response and is waiting for the next notification.
C15_Witness ==
    /\ mainPc = "driver2"
    /\ retOn[1] = "Ready"
    /\ drvPc = "recv"
    /\ fails > 0

\* The authorization state handle_update is sending, if any.
Held == IF pumpPc \in {"send", "blocked"} THEN 1 ELSE 0

C17_PollsOnlyWhileFlagTrue ==
    /\ [](pollsSinceClear <= 1)
    /\ [][(pumpPc # "receive" /\ pumpPc' = "receive") =>
            (pumpPc = "check" /\ run_flag)]_vars
    /\ [][(pumpPc = "check" /\ ~run_flag /\ pumpPc' # pumpPc) => pumpPc' = "done"]_vars
    /\ [](pollsSinceClear = 1 => ~run_flag /\ pumpPc # "receive")

\* The pump polled once after false was stored and has left its loop.
C17_Witness ==
    /\ pollsSinceClear = 1
    /\ ~run_flag
    /\ pumpPc = "done"

\* C18 as stated: with responses delivered only by the pump's polls, in no
\* reachable state is the pump suspended in a send on a full channel while
\* the main task awaits the response of a remote call that has not been
\* delivered.
C18_NoMutualWait ==
    ~ /\ pumpPc = "blocked"
      /\ Len(channel) = ChannelCapacity
      /\ pending # "none"
      /\ response = "none"

\* C19 as stated: once the pump task has ended, a driver invocation does not
\* wait forever: until it has returned, the program has a step to take
\* (receive what is queued, handle it, or return because the channel is
\* closed).
C19_NoWaitOnDeadPump ==
    (~TxAlive /\ InDriver) => ENABLED Next

====
